---- MODULE Spec2Model ----
(***************************************************************************)
(* Auction simulator: Manager.Run fans out NumAuctions runners             *)
(* (auction.Run), each of which notifies every bidder, collects bids from  *)
(* a buffered channel until its context times out, resolves the winner and *)
(* sends the auction to the manager's result channel.                      *)
(*                                                                         *)
(* Goroutines are modelled as interleaved processes; one action is one     *)
(* step on shared state (the global random source, the wall clock, a       *)
(* channel, the wait group).  Time is a discrete clock `now`; a timer or   *)
(* a sleep may complete at or after its instant, never before.             *)
(***************************************************************************)
EXTENDS Integers, Sequences, FiniteSets, TLC

(* ------------------------------ bounds --------------------------------- *)
\* manager.go:15-16 fix 40 auctions and 100 bidders and the loops of
\* part_002:16 and part_001:62 run over 20 attributes; the model takes the
\* three as configuration and is checked at small values.
MaxAuctions == 2
MaxBidders == 1
NumAttrs == 1
\* The `timeout` argument of auction.Run, in clock ticks.
Timeout == 2
\* Milliseconds per clock tick.
TickMs == 500
\* The random source yields RngMod equidistant values of [0,1).
RngMod == 4
\* Longest bid sequence handed to DetermineWinner in WinnerSpec.
MaxBids == 3
\* Largest bid amount and timestamp in WinnerSpec.
MaxAmount == 2
MaxStamp == 2
\* Most goroutines that call AddBid on one auction at once in AddBidSpec.
MaxCallers == 3

(* ------------------------- program constants --------------------------- *)
BidChanCap == 200
NumBidders == 100
DelayBaseMs == 10
DelaySpanMs == 490

Auctions == 1..MaxAuctions
Bidders == 1..MaxBidders
\* Goroutines that call Auction.AddBid concurrently.
Callers == 1..MaxCallers
\* The -seed flag.
Seeds == {0, 1, 2}

VARIABLES
    numAuctions,  \* manager.NumAuctions
    numBidders,   \* manager.NumBidders
    now,          \* wall clock (time.Now)
    seed,         \* the value given to rand.Seed
    rng,          \* state of the global math/rand source
    panicked,     \* a goroutine panicked: the process is gone
    mgrPc, mgrI,  \* Manager: program counter, loop index
    rate,         \* Bidder.ParticipationRate, as the draw it was computed from
    wg,           \* sync.WaitGroup counter
    waiterPc,     \* the goroutine of manager.go:67-70
    results, resultsClosed,   \* the results channel
    auctionResults, firstStart, lastEnd,  \* Manager.Run's return values
    auction,      \* models.Auction of each runner
    rPc,          \* auction.Run: program counter
    notifyI,      \* notifyBidders: loop index
    deadline,     \* deadline of auctionCtx
    ctxDone,      \* auctionCtx.Done() is closed
    bidChan, bidChanClosed,   \* the bid channel
    done,         \* the done channel is closed
    cPc, cBid,    \* collection goroutine: program counter, received bid
    worker,       \* placeBid goroutines, per auction and bidder
    mu,           \* Auction.mu: the caller that holds it, 0 when unlocked
    caller,       \* goroutines inside Auction.AddBid (AddBidSpec)
    delay,        \* placeBid's processing delay on its own (DelaySpec)
    parentDone,   \* the context given to Manager.Run is cancelled
    accepted      \* history: the bids each bid channel accepted, in order,
                  \* and whether the send came before the deadline

vars == <<numAuctions, numBidders, now, seed, rng, panicked, mgrPc, mgrI, rate, wg, waiterPc, results,
          resultsClosed, auctionResults, firstStart, lastEnd, auction, rPc,
          notifyI, deadline, ctxDone, bidChan, bidChanClosed, done, cPc, cBid,
          worker, mu, caller, delay, parentDone, accepted>>

addVars == <<mu, caller>>
mgrVars == <<mgrPc, mgrI, rate, wg, waiterPc, results, resultsClosed,
             auctionResults, firstStart, lastEnd>>
runVars == <<rPc, notifyI, deadline, ctxDone, bidChan, bidChanClosed, done,
             cPc, cBid>>

(* --------------------------- random source ----------------------------- *)
\* The seeded generator: an additive congruential sequence over 0..RngMod-1.
\* A value x stands for the float x / RngMod.
NextRaw(x) == (x + 3) % RngMod

SeedState(s) == s % RngMod

\* The n-th value drawn after rand.Seed(s).
RECURSIVE Stream(_, _)
Stream(s, n) == IF n = 0 THEN SeedState(s) ELSE NextRaw(Stream(s, n - 1))

\* rand.Intn(n) of the draw x.
Intn(x, n) == (x * n) \div RngMod

(* ------------------------------ models --------------------------------- *)
NoBid == [BidderID |-> 0, Amount |-> 0, Timestamp |-> 0]

\* models.NewAuction; the zero time.Time is 0, the clock starts at 1.
NewAuction(id) ==
    [ID |-> id, Attributes |-> <<>>, StartTime |-> 0, EndTime |-> 0,
     Bids |-> <<>>, Winner |-> 0, TotalBids |-> 0]

\* Auction.AddBid
AddBidPrepend(a, bid) == [a EXCEPT !.Bids = <<bid>> \o @]

AddBid(a, bid) == [a EXCEPT !.Bids = Append(@, bid)]

\* The test of the scan in DetermineWinner: bid b replaces the winner w.
BetterBidNoTieBreak(b, w) == b.Amount > w.Amount

BetterBidLastOfEqual(b, w) == b.Amount >= w.Amount

BetterBid(b, w) ==
    \/ b.Amount > w.Amount
    \/ b.Amount = w.Amount /\ b.Timestamp < w.Timestamp

\* The loop of DetermineWinner from index i with the winner at index w.
RECURSIVE WinnerScan(_, _, _)
WinnerScan(bs, i, w) ==
    IF i > Len(bs) THEN w
    ELSE WinnerScan(bs, i + 1, IF BetterBid(bs[i], bs[w]) THEN i ELSE w)

\* The winner as an index into Bids (the code keeps &a.Bids[i]); 0 is nil.
WinnerIndexSkipSingle(bs) == IF Len(bs) <= 1 THEN 0 ELSE WinnerScan(bs, 2, 1)

WinnerIndex(bs) == IF Len(bs) = 0 THEN 0 ELSE WinnerScan(bs, 2, 1)

\* Auction.DetermineWinner
DetermineWinner(a) ==
    [a EXCEPT !.TotalBids = Len(a.Bids), !.Winner = WinnerIndex(a.Bids)]

WinnerBid(a) == IF a.Winner = 0 THEN NoBid ELSE a.Bids[a.Winner]

(* ------------------------------ bidder --------------------------------- *)
\* ConsiderBid returns without bidding: rand.Float64() > 0.6 + r*0.2, with
\* the draw x and the rate's draw r, both scaled by 10 * RngMod.
Declines(x, r) == 10 * x > 6 * RngMod + 2 * r

\* processingDelay of placeBid in milliseconds when rand.Intn returns k, for
\* the draw x, and the ticks it sleeps.
DelayMs(k) == DelayBaseMs + k

ProcessingDelayMs(x) == DelayMs(Intn(x, DelaySpanMs))

SleepTicks(x) == (ProcessingDelayMs(x) + TickMs - 1) \div TickMs

\* calculateBid: (100 + score/20*9900) * (0.8 + j*0.4), scaled by
\* 10 * NumAttrs * RngMod^3 so that it stays an integer; score is the sum of
\* the products of the attribute and weight draws.
BidAmount(score, j) ==
    (100 * NumAttrs * RngMod * RngMod + 9900 * score) * (8 * RngMod + 4 * j)

NewWorker == [pc |-> "none", wake |-> 0, i |-> 0, score |-> 0, bid |-> NoBid]

\* No placeBid considered on its own; k is the value of rand.Intn.
NoDelay == [pc |-> "none", k |-> 0, ms |-> 0]

\* A goroutine that is not calling AddBid; seen is the slice its append read.
NewCaller == [pc |-> "none", bid |-> NoBid, seen |-> <<>>]

(* ------------------------------- Init ---------------------------------- *)
\* Everything but the configuration, after rand.Seed(seed) in main.
InitRest ==
    /\ now = 1
    /\ seed \in Seeds
    /\ rng = SeedState(seed)
    /\ panicked = FALSE
    /\ mgrPc = "newBidders"
    /\ mgrI = 1
    /\ rate = [b \in Bidders |-> 0]
    /\ wg = 0
    /\ waiterPc = "none"
    /\ results = <<>>
    /\ resultsClosed = FALSE
    /\ auctionResults = <<>>
    /\ firstStart = 0
    /\ lastEnd = 0
    /\ auction = [a \in Auctions |-> NewAuction(a)]
    /\ rPc = [a \in Auctions |-> "idle"]
    /\ notifyI = [a \in Auctions |-> 1]
    /\ deadline = [a \in Auctions |-> 0]
    /\ ctxDone = [a \in Auctions |-> FALSE]
    /\ bidChan = [a \in Auctions |-> <<>>]
    /\ bidChanClosed = [a \in Auctions |-> FALSE]
    /\ done = [a \in Auctions |-> FALSE]
    /\ cPc = [a \in Auctions |-> "none"]
    /\ cBid = [a \in Auctions |-> NoBid]
    /\ worker = [a \in Auctions |-> [b \in Bidders |-> NewWorker]]
    /\ mu = [a \in Auctions |-> 0]
    /\ caller = [c \in Callers |-> NewCaller]
    /\ accepted = [a \in Auctions |-> <<>>]
    /\ parentDone = FALSE
    /\ delay = NoDelay

\* The configurations checked: every auction count up to MaxAuctions without
\* bidders, and one auction with every bidder count up to MaxBidders. Runs
\* of several auctions that all have bidders are beyond the model checker.
Init ==
    /\ \/ numAuctions \in 1..MaxAuctions /\ numBidders = 0
       \/ numAuctions = 1 /\ numBidders \in 1..MaxBidders
    /\ InitRest

\* The program with one auction.
OneAuctionInit ==
    /\ numAuctions = 1
    /\ numBidders \in 0..MaxBidders
    /\ InitRest

(* ------------------------------ Manager -------------------------------- *)
\* NewManager: one bidder per iteration, each drawing its participation rate.
NewManagerBidder ==
    /\ ~panicked
    /\ mgrPc = "newBidders"
    /\ mgrI <= numBidders
    /\ rng' = NextRaw(rng)
    /\ rate' = [rate EXCEPT ![mgrI] = rng']
    /\ mgrI' = mgrI + 1
    /\ UNCHANGED <<delay, parentDone, accepted, addVars, numAuctions, numBidders, now, seed, panicked, mgrPc, wg, waiterPc, results,
                   resultsClosed, auctionResults, firstStart, lastEnd,
                   auction, runVars, worker>>

\* NewManager returns; Manager.Run makes the results channel.
ManagerRun ==
    /\ ~panicked
    /\ mgrPc = "newBidders"
    /\ mgrI > numBidders
    /\ mgrPc' = "launch"
    /\ mgrI' = 1
    /\ UNCHANGED <<delay, parentDone, accepted, addVars, numAuctions, numBidders, now, seed, rng, panicked, rate, wg, waiterPc, results,
                   resultsClosed, auctionResults, firstStart, lastEnd,
                   auction, runVars, worker>>

\* One iteration of the launch loop: wg.Add(1) and the go statement.
ManagerLaunchNoAdd ==
    /\ ~panicked
    /\ mgrPc = "launch"
    /\ mgrI <= numAuctions
    /\ wg' = wg
    /\ rPc' = [rPc EXCEPT ![mgrI] = "attrs"]
    /\ mgrI' = mgrI + 1
    /\ UNCHANGED <<delay, parentDone, accepted, addVars, numAuctions, numBidders, now, seed, rng, panicked, mgrPc, rate, waiterPc, results,
                   resultsClosed, auctionResults, firstStart, lastEnd,
                   auction, notifyI, deadline, ctxDone, bidChan,
                   bidChanClosed, done, cPc, cBid, worker>>

ManagerLaunch ==
    /\ ~panicked
    /\ mgrPc = "launch"
    /\ mgrI <= numAuctions
    /\ wg' = wg + 1
    /\ rPc' = [rPc EXCEPT ![mgrI] = "attrs"]
    /\ mgrI' = mgrI + 1
    /\ UNCHANGED <<delay, parentDone, accepted, addVars, numAuctions, numBidders, now, seed, rng, panicked, mgrPc, rate, waiterPc, results,
                   resultsClosed, auctionResults, firstStart, lastEnd,
                   auction, notifyI, deadline, ctxDone, bidChan,
                   bidChanClosed, done, cPc, cBid, worker>>

\* The go statement of the goroutine that waits for the runners.
ManagerGoWaiter ==
    /\ ~panicked
    /\ mgrPc = "launch"
    /\ mgrI > numAuctions
    /\ waiterPc' = "wait"
    /\ mgrPc' = "collect"
    /\ UNCHANGED <<delay, parentDone, accepted, addVars, numAuctions, numBidders, now, seed, rng, panicked, mgrI, rate, wg, results,
                   resultsClosed, auctionResults, firstStart, lastEnd,
                   auction, runVars, worker>>

\* wg.Wait() returns; close(results).
WaiterCloseEarly ==
    /\ ~panicked
    /\ waiterPc = "wait"
    /\ resultsClosed' = TRUE
    /\ waiterPc' = "exited"
    /\ UNCHANGED <<delay, parentDone, accepted, addVars, numAuctions, numBidders, now, seed, rng, panicked, mgrPc, mgrI, rate, wg, results,
                   auctionResults, firstStart, lastEnd, auction, runVars,
                   worker>>

WaiterClose ==
    /\ ~panicked
    /\ waiterPc = "wait"
    /\ wg = 0
    /\ resultsClosed' = TRUE
    /\ waiterPc' = "exited"
    /\ UNCHANGED <<delay, parentDone, accepted, addVars, numAuctions, numBidders, now, seed, rng, panicked, mgrPc, mgrI, rate, wg, results,
                   auctionResults, firstStart, lastEnd, auction, runVars,
                   worker>>

\* One iteration of `for result := range results`.
ManagerCollect ==
    /\ ~panicked
    /\ mgrPc = "collect"
    /\ results # <<>>
    /\ auctionResults' = Append(auctionResults, Head(results))
    /\ results' = Tail(results)
    /\ UNCHANGED <<delay, parentDone, accepted, addVars, numAuctions, numBidders, now, seed, rng, panicked, mgrPc, mgrI, rate, wg, waiterPc,
                   resultsClosed, firstStart, lastEnd, auction, runVars,
                   worker>>

\* The loops of manager.go:85-92 over the results rs from index i.
RECURSIVE FirstStartScan(_, _, _)
FirstStartScan(rs, i, first) ==
    IF i > Len(rs) THEN first
    ELSE FirstStartScan(rs, i + 1,
            IF auction[rs[i]].StartTime < first
            THEN auction[rs[i]].StartTime ELSE first)

RECURSIVE LastEndScan(_, _, _)
LastEndScan(rs, i, last) ==
    IF i > Len(rs) THEN last
    ELSE LastEndScan(rs, i + 1,
            IF auction[rs[i]].EndTime > last
            THEN auction[rs[i]].EndTime ELSE last)

FirstStartOfHead(rs) == IF Len(rs) > 0 THEN auction[rs[1]].StartTime ELSE 0

FirstStartOf(rs) ==
    IF Len(rs) > 0 THEN FirstStartScan(rs, 1, auction[rs[1]].StartTime) ELSE 0

LastEndOf(rs) ==
    IF Len(rs) > 0 THEN LastEndScan(rs, 1, auction[rs[1]].EndTime) ELSE 0

\* The range loop ends on the closed, drained channel; Manager.Run computes
\* the bounds and returns.
ManagerReturn ==
    /\ ~panicked
    /\ mgrPc = "collect"
    /\ results = <<>>
    /\ resultsClosed
    /\ firstStart' = FirstStartOf(auctionResults)
    /\ lastEnd' = LastEndOf(auctionResults)
    /\ mgrPc' = "returned"
    /\ UNCHANGED <<delay, parentDone, accepted, addVars, numAuctions, numBidders, now, seed, rng, panicked, mgrI, rate, wg, waiterPc,
                   results, resultsClosed, auctionResults, auction, runVars,
                   worker>>

(* ---------------------------- auction.Run ------------------------------ *)
\* One iteration of the attribute loop: auction.Attributes[i] = rand.Float64().
RunnerAttr(a) ==
    /\ ~panicked
    /\ rPc[a] = "attrs"
    /\ rng' = NextRaw(rng)
    /\ auction' = [auction EXCEPT ![a].Attributes = Append(@, rng')]
    /\ rPc' = [rPc EXCEPT ![a] =
                 IF Len(auction[a].Attributes) + 1 >= NumAttrs
                 THEN "start" ELSE "attrs"]
    /\ UNCHANGED <<delay, parentDone, accepted, addVars, numAuctions, numBidders, now, seed, panicked, mgrVars, notifyI, deadline, ctxDone,
                   bidChan, bidChanClosed, done, cPc, cBid, worker>>

\* auction.StartTime = time.Now()
RunnerStart(a) ==
    /\ ~panicked
    /\ rPc[a] = "start"
    /\ auction' = [auction EXCEPT ![a].StartTime = now]
    /\ rPc' = [rPc EXCEPT ![a] = "ctx"]
    /\ UNCHANGED <<delay, parentDone, accepted, addVars, numAuctions, numBidders, now, seed, rng, panicked, mgrVars, notifyI, deadline,
                   ctxDone, bidChan, bidChanClosed, done, cPc, cBid, worker>>

\* make(chan models.Bid, 200) and context.WithTimeout(ctx, timeout): the
\* context is done from the start if ctx is. main passes
\* context.Background(), which is never cancelled. With no bidder,
\* notifyBidders returns at once and the collection goroutine starts.
RunnerCtx(a) ==
    /\ ~panicked
    /\ rPc[a] = "ctx"
    /\ deadline' = [deadline EXCEPT ![a] = now + Timeout]
    /\ ctxDone' = [ctxDone EXCEPT ![a] = parentDone]
    /\ notifyI' = [notifyI EXCEPT ![a] = 1]
    /\ rPc' = [rPc EXCEPT ![a] = IF numBidders = 0 THEN "wait" ELSE "notify"]
    /\ cPc' = [cPc EXCEPT ![a] = IF numBidders = 0 THEN "select" ELSE @]
    /\ UNCHANGED <<delay, parentDone, accepted, addVars, numAuctions, numBidders, now, seed, rng, panicked, mgrVars,
                   auction, bidChan, bidChanClosed, done, cBid,
                   worker>>

\* ConsiderBid calling placeBid without `go`: an iteration starts, and
\* notifyBidders returns, only when the previous bidder's placeBid is over.
RunnerNotifySync(a) ==
    /\ ~panicked
    /\ rPc[a] = "notify"
    /\ IF notifyI[a] = 1 THEN TRUE
       ELSE worker[a][notifyI[a] - 1].pc \in {"none", "exited"}
    /\ IF notifyI[a] <= numBidders
       THEN /\ rng' = NextRaw(rng)
            /\ worker' = [worker EXCEPT ![a][notifyI[a]].pc =
                            IF Declines(rng', rate[notifyI[a]])
                            THEN "none" ELSE "delay"]
            /\ notifyI' = [notifyI EXCEPT ![a] = @ + 1]
            /\ UNCHANGED <<rPc, cPc>>
       ELSE /\ rPc' = [rPc EXCEPT ![a] = "wait"]
            /\ cPc' = [cPc EXCEPT ![a] = "select"]
            /\ UNCHANGED <<rng, worker, notifyI>>
    /\ UNCHANGED <<delay, parentDone, accepted, addVars, numAuctions, numBidders, now,
                   seed, panicked, mgrVars, auction, deadline, ctxDone,
                   bidChan, bidChanClosed, done, cBid>>

\* One iteration of notifyBidders: Bidder.ConsiderBid draws, and either
\* returns or starts the placeBid goroutine. After the last iteration
\* notifyBidders returns and the collection goroutine starts.
RunnerNotify(a) ==
    /\ ~panicked
    /\ rPc[a] = "notify"
    /\ rng' = NextRaw(rng)
    /\ worker' = [worker EXCEPT ![a][notifyI[a]].pc =
                    IF Declines(rng', rate[notifyI[a]]) THEN "none" ELSE "delay"]
    /\ notifyI' = [notifyI EXCEPT ![a] = @ + 1]
    /\ rPc' = [rPc EXCEPT ![a] =
                 IF notifyI[a] >= numBidders THEN "wait" ELSE "notify"]
    /\ cPc' = [cPc EXCEPT ![a] =
                 IF notifyI[a] >= numBidders THEN "select" ELSE @]
    /\ UNCHANGED <<delay, parentDone, accepted, addVars, numAuctions, numBidders, now, seed, panicked, mgrVars,
                   auction, deadline, ctxDone, bidChan, bidChanClosed, done,
                   cBid>>

\* <-auctionCtx.Done(); <-done; close(bidChan). The two receives only wait
\* for channels that stay closed, so they are the guard of the close.
RunnerCloseNoWaitDone(a) ==
    /\ ~panicked
    /\ rPc[a] = "wait"
    /\ ctxDone[a]
    /\ bidChanClosed' = [bidChanClosed EXCEPT ![a] = TRUE]
    /\ rPc' = [rPc EXCEPT ![a] = "end"]
    /\ UNCHANGED <<delay, parentDone, accepted, addVars, numAuctions, numBidders, now, seed, rng, panicked, mgrVars,
                   auction, notifyI, deadline, ctxDone, bidChan, done, cPc,
                   cBid, worker>>

RunnerClose(a) ==
    /\ ~panicked
    /\ rPc[a] = "wait"
    /\ ctxDone[a]
    /\ done[a]
    /\ bidChanClosed' = [bidChanClosed EXCEPT ![a] = TRUE]
    /\ rPc' = [rPc EXCEPT ![a] = "end"]
    /\ UNCHANGED <<delay, parentDone, accepted, addVars, numAuctions, numBidders, now, seed, rng, panicked, mgrVars,
                   auction, notifyI, deadline, ctxDone, bidChan, done, cPc,
                   cBid, worker>>

\* auction.EndTime = time.Now()
RunnerEndSkipDetermine(a) ==
    /\ ~panicked
    /\ rPc[a] = "end"
    /\ auction' = [auction EXCEPT ![a].EndTime = now]
    /\ rPc' = [rPc EXCEPT ![a] = "emit"]
    /\ UNCHANGED <<delay, parentDone, accepted, addVars, numAuctions, numBidders, now, seed, rng, panicked, mgrVars, notifyI, deadline,
                   ctxDone, bidChan, bidChanClosed, done, cPc, cBid, worker>>

RunnerEndAtDeadline(a) ==
    /\ ~panicked
    /\ rPc[a] = "end"
    /\ auction' = [auction EXCEPT ![a].EndTime = deadline[a]]
    /\ rPc' = [rPc EXCEPT ![a] = "determine"]
    /\ UNCHANGED <<delay, parentDone, accepted, addVars, numAuctions, numBidders, now, seed, rng, panicked, mgrVars, notifyI, deadline,
                   ctxDone, bidChan, bidChanClosed, done, cPc, cBid, worker>>

RunnerEnd(a) ==
    /\ ~panicked
    /\ rPc[a] = "end"
    /\ auction' = [auction EXCEPT ![a].EndTime = now]
    /\ rPc' = [rPc EXCEPT ![a] = "determine"]
    /\ UNCHANGED <<delay, parentDone, accepted, addVars, numAuctions, numBidders, now, seed, rng, panicked, mgrVars, notifyI, deadline,
                   ctxDone, bidChan, bidChanClosed, done, cPc, cBid, worker>>

\* auction.DetermineWinner()
RunnerDetermine(a) ==
    /\ ~panicked
    /\ rPc[a] = "determine"
    /\ auction' = [auction EXCEPT ![a] = DetermineWinner(@)]
    /\ rPc' = [rPc EXCEPT ![a] = "emit"]
    /\ UNCHANGED <<delay, parentDone, accepted, addVars, numAuctions, numBidders, now, seed, rng, panicked, mgrVars, notifyI, deadline,
                   ctxDone, bidChan, bidChanClosed, done, cPc, cBid, worker>>

\* results <- auction: blocks while the buffer is full, panics on a closed
\* channel.
RunnerEmit(a) ==
    /\ ~panicked
    /\ rPc[a] = "emit"
    /\ resultsClosed \/ Len(results) < numAuctions
    /\ IF resultsClosed
       THEN /\ panicked' = TRUE
            /\ UNCHANGED <<results, rPc>>
       ELSE /\ results' = Append(results, a)
            /\ rPc' = [rPc EXCEPT ![a] = "exit"]
            /\ UNCHANGED panicked
    /\ UNCHANGED <<delay, parentDone, accepted, addVars, numAuctions, numBidders, now, seed, rng, mgrPc, mgrI, rate, wg, waiterPc,
                   resultsClosed, auctionResults, firstStart, lastEnd,
                   auction, notifyI, deadline, ctxDone, bidChan,
                   bidChanClosed, done, cPc, cBid, worker>>

\* Run returns: the deferred cancel(), then the caller's deferred wg.Done().
RunnerExitCancelsAll(a) ==
    /\ ~panicked
    /\ rPc[a] = "exit"
    /\ ctxDone' = [x \in Auctions |-> TRUE]
    /\ wg' = wg - 1
    /\ rPc' = [rPc EXCEPT ![a] = "exited"]
    /\ UNCHANGED <<delay, parentDone, accepted, addVars, numAuctions, numBidders, now, seed, rng, panicked, mgrPc, mgrI, rate, waiterPc,
                   results, resultsClosed, auctionResults, firstStart,
                   lastEnd, auction, notifyI, deadline, bidChan,
                   bidChanClosed, done, cPc, cBid, worker>>

RunnerExit(a) ==
    /\ ~panicked
    /\ rPc[a] = "exit"
    /\ ctxDone' = [ctxDone EXCEPT ![a] = TRUE]
    /\ wg' = wg - 1
    /\ rPc' = [rPc EXCEPT ![a] = "exited"]
    /\ UNCHANGED <<delay, parentDone, accepted, addVars, numAuctions, numBidders, now, seed, rng, panicked, mgrPc, mgrI, rate, waiterPc,
                   results, resultsClosed, auctionResults, firstStart,
                   lastEnd, auction, notifyI, deadline, bidChan,
                   bidChanClosed, done, cPc, cBid, worker>>

\* auctionCtx exists from context.WithTimeout on.
CtxMade(a) == rPc[a] \notin {"idle", "attrs", "start", "ctx"}

\* The timer of context.WithTimeout fires, at its deadline or later.
TimeoutFires(a) ==
    /\ ~panicked
    /\ CtxMade(a)
    /\ ~ctxDone[a]
    /\ now >= deadline[a]
    /\ ctxDone' = [ctxDone EXCEPT ![a] = TRUE]
    /\ UNCHANGED <<delay, parentDone, accepted, addVars, numAuctions, numBidders, now, seed, rng, panicked, mgrVars, auction, rPc, notifyI,
                   deadline, bidChan, bidChanClosed, done, cPc, cBid, worker>>

(* ------------------------ collection goroutine ------------------------- *)
\* select case bid := <-bidChan. Go picks among the ready cases at random,
\* so this case may be taken while auctionCtx.Done() is ready too. A closed,
\* drained channel yields the zero Bid.
CollectRecv(a) ==
    /\ ~panicked
    /\ cPc[a] = "select"
    /\ bidChan[a] # <<>> \/ bidChanClosed[a]
    /\ cBid' = [cBid EXCEPT ![a] =
                  IF bidChan[a] # <<>> THEN Head(bidChan[a]) ELSE NoBid]
    /\ bidChan' = [bidChan EXCEPT ![a] = IF @ # <<>> THEN Tail(@) ELSE @]
    /\ cPc' = [cPc EXCEPT ![a] = "add"]
    /\ UNCHANGED <<delay, parentDone, accepted, addVars, numAuctions, numBidders, now, seed, rng, panicked, mgrVars, auction, rPc, notifyI,
                   deadline, ctxDone, bidChanClosed, done, worker>>

\* auction.AddBid(bid)
CollectAdd(a) ==
    /\ ~panicked
    /\ cPc[a] = "add"
    /\ auction' = [auction EXCEPT ![a] = AddBid(@, cBid[a])]
    /\ cBid' = [cBid EXCEPT ![a] = NoBid]
    /\ cPc' = [cPc EXCEPT ![a] = "select"]
    /\ UNCHANGED <<delay, parentDone, accepted, addVars, numAuctions, numBidders, now, seed, rng, panicked, mgrVars, rPc, notifyI, deadline,
                   ctxDone, bidChan, bidChanClosed, done, worker>>

\* select case <-auctionCtx.Done(): close(done); return
CollectDoneNoReturn(a) ==
    /\ ~panicked
    /\ cPc[a] = "select"
    /\ ctxDone[a]
    /\ done' = [done EXCEPT ![a] = TRUE]
    /\ ~done[a]
    /\ cPc' = [cPc EXCEPT ![a] = "select"]
    /\ UNCHANGED <<delay, parentDone, accepted, addVars, numAuctions, numBidders, now, seed, rng, panicked, mgrVars, auction, rPc, notifyI,
                   deadline, ctxDone, bidChan, bidChanClosed, cBid, worker>>

CollectDone(a) ==
    /\ ~panicked
    /\ cPc[a] = "select"
    /\ ctxDone[a]
    /\ done' = [done EXCEPT ![a] = TRUE]
    /\ cPc' = [cPc EXCEPT ![a] = "exited"]
    /\ UNCHANGED <<delay, parentDone, accepted, addVars, numAuctions, numBidders, now, seed, rng, panicked, mgrVars, auction, rPc, notifyI,
                   deadline, ctxDone, bidChan, bidChanClosed, cBid, worker>>

(* -------------------------- Bidder.placeBid ---------------------------- *)
\* processingDelay := 10 + rand.Intn(490) ms; time.Sleep starts.
WorkerDelay(a, b) ==
    /\ ~panicked
    /\ worker[a][b].pc = "delay"
    /\ rng' = NextRaw(rng)
    /\ worker' = [worker EXCEPT ![a][b].pc = "calc", ![a][b].i = 1,
                                ![a][b].wake = now + SleepTicks(rng')]
    /\ UNCHANGED <<delay, parentDone, accepted, addVars, numAuctions, numBidders, now, seed, panicked, mgrVars, auction, runVars>>

\* time.Sleep returns, at its instant or later; then one iteration of
\* calculateBid's loop: score += attributes[i] * weight.
WorkerWeight(a, b) ==
    /\ ~panicked
    /\ worker[a][b].pc = "calc"
    /\ now >= worker[a][b].wake
    /\ rng' = NextRaw(rng)
    /\ worker' = [worker EXCEPT
                    ![a][b].score = @ + auction[a].Attributes[worker[a][b].i] * rng',
                    ![a][b].i = @ + 1,
                    ![a][b].pc = IF worker[a][b].i >= NumAttrs
                                 THEN "jitter" ELSE "calc"]
    /\ UNCHANGED <<delay, parentDone, accepted, addVars, numAuctions, numBidders, now, seed, panicked, mgrVars,
                   auction, runVars>>

\* randomFactor := 0.8 + rand.Float64()*0.4; calculateBid returns.
WorkerJitter(a, b) ==
    /\ ~panicked
    /\ worker[a][b].pc = "jitter"
    /\ rng' = NextRaw(rng)
    /\ worker' = [worker EXCEPT
                    ![a][b].bid.Amount = BidAmount(worker[a][b].score, rng'),
                    ![a][b].bid.BidderID = b,
                    ![a][b].pc = "stamp"]
    /\ UNCHANGED <<delay, parentDone, accepted, addVars, numAuctions, numBidders, now, seed, panicked, mgrVars, auction, runVars>>

\* Timestamp: time.Now()
WorkerStamp(a, b) ==
    /\ ~panicked
    /\ worker[a][b].pc = "stamp"
    /\ worker' = [worker EXCEPT ![a][b].bid.Timestamp = now,
                                ![a][b].pc = "send"]
    /\ UNCHANGED <<delay, parentDone, accepted, addVars, numAuctions, numBidders, now, seed, rng, panicked, mgrVars, auction, runVars>>

\* select { case bidChan <- bid: default: }. A send on a closed channel
\* panics, in a select with a default case too; on a full buffer the default
\* case runs.
WorkerSendAgain(a, b) ==
    /\ ~panicked
    /\ worker[a][b].pc = "send"
    /\ IF bidChanClosed[a]
       THEN /\ panicked' = TRUE
            /\ UNCHANGED <<bidChan, worker, accepted>>
       ELSE /\ bidChan' = [bidChan EXCEPT ![a] =
                             IF Len(@) < BidChanCap
                             THEN Append(@, worker[a][b].bid) ELSE @]
            /\ accepted' = [accepted EXCEPT ![a] =
                              IF Len(bidChan[a]) < BidChanCap
                              THEN Append(@, [bid |-> worker[a][b].bid,
                                              early |-> now < deadline[a]])
                              ELSE @]
            /\ worker' = [worker EXCEPT ![a][b].pc = "send"]
            /\ UNCHANGED panicked
    /\ UNCHANGED <<delay, parentDone, addVars, numAuctions, numBidders, now, seed, rng, mgrVars, auction, rPc, notifyI, deadline,
                   ctxDone, bidChanClosed, done, cPc, cBid>>

WorkerSendCapOne(a, b) ==
    /\ ~panicked
    /\ worker[a][b].pc = "send"
    /\ IF bidChanClosed[a]
       THEN /\ panicked' = TRUE
            /\ UNCHANGED <<bidChan, worker, accepted>>
       ELSE /\ bidChan' = [bidChan EXCEPT ![a] =
                             IF Len(@) < 1
                             THEN Append(@, worker[a][b].bid) ELSE @]
            /\ accepted' = [accepted EXCEPT ![a] =
                              IF Len(bidChan[a]) < 1
                              THEN Append(@, [bid |-> worker[a][b].bid,
                                              early |-> now < deadline[a]])
                              ELSE @]
            /\ worker' = [worker EXCEPT ![a][b].pc = "exited"]
            /\ UNCHANGED panicked
    /\ UNCHANGED <<delay, parentDone, addVars, numAuctions, numBidders, now, seed, rng, mgrVars, auction, rPc, notifyI, deadline,
                   ctxDone, bidChanClosed, done, cPc, cBid>>

WorkerSend(a, b) ==
    /\ ~panicked
    /\ worker[a][b].pc = "send"
    /\ IF bidChanClosed[a]
       THEN /\ panicked' = TRUE
            /\ UNCHANGED <<bidChan, worker, accepted>>
       ELSE /\ bidChan' = [bidChan EXCEPT ![a] =
                             IF Len(@) < BidChanCap
                             THEN Append(@, worker[a][b].bid) ELSE @]
            /\ accepted' = [accepted EXCEPT ![a] =
                              IF Len(bidChan[a]) < BidChanCap
                              THEN Append(@, [bid |-> worker[a][b].bid,
                                              early |-> now < deadline[a]])
                              ELSE @]
            /\ worker' = [worker EXCEPT ![a][b].pc = "exited"]
            /\ UNCHANGED panicked
    /\ UNCHANGED <<delay, parentDone, addVars, numAuctions, numBidders, now, seed, rng, mgrVars, auction, rPc, notifyI, deadline,
                   ctxDone, bidChanClosed, done, cPc, cBid>>

(* ------------------------------- clock --------------------------------- *)
\* A timer or a sleep that has not reached its instant.
TimerPending ==
    \/ \E a \in Auctions : CtxMade(a) /\ ~ctxDone[a] /\ now < deadline[a]
    \/ \E a \in Auctions, b \in Bidders :
          worker[a][b].pc = "calc" /\ now < worker[a][b].wake

\* The clock advances while some timer or sleep waits for it; time that
\* passes while nothing waits for the clock is not modelled.
Tick ==
    /\ ~panicked
    /\ TimerPending
    /\ now' = now + 1
    /\ UNCHANGED <<delay, parentDone, accepted, addVars, numAuctions, numBidders, seed, rng, panicked, mgrVars, auction, runVars, worker>>

(* ------------------------------- Next ---------------------------------- *)
\* Every action is guarded by ~panicked: a panic ends the process.
Next ==
    \/ NewManagerBidder
    \/ ManagerRun
    \/ ManagerLaunch
    \/ ManagerGoWaiter
    \/ WaiterClose
    \/ ManagerCollect
    \/ ManagerReturn
    \/ \E a \in Auctions : RunnerAttr(a)
    \/ \E a \in Auctions : RunnerStart(a)
    \/ \E a \in Auctions : RunnerCtx(a)
    \/ \E a \in Auctions : RunnerNotify(a)
    \/ \E a \in Auctions : RunnerClose(a)
    \/ \E a \in Auctions : RunnerEnd(a)
    \/ \E a \in Auctions : RunnerDetermine(a)
    \/ \E a \in Auctions : RunnerEmit(a)
    \/ \E a \in Auctions : RunnerExit(a)
    \/ \E a \in Auctions : TimeoutFires(a)
    \/ \E a \in Auctions : CollectRecv(a)
    \/ \E a \in Auctions : CollectAdd(a)
    \/ \E a \in Auctions : CollectDone(a)
    \/ \E a \in Auctions, b \in Bidders : WorkerDelay(a, b)
    \/ \E a \in Auctions, b \in Bidders : WorkerWeight(a, b)
    \/ \E a \in Auctions, b \in Bidders : WorkerJitter(a, b)
    \/ \E a \in Auctions, b \in Bidders : WorkerStamp(a, b)
    \/ \E a \in Auctions, b \in Bidders : WorkerSend(a, b)
    \/ Tick

Spec == Init /\ [][Next]_vars

OneAuctionSpec == OneAuctionInit /\ [][Next]_vars

\* Every goroutine that can run eventually runs, a due timer eventually
\* fires and the clock does not stop while something waits for it.
Fairness ==
    /\ WF_vars(NewManagerBidder \/ ManagerRun \/ ManagerLaunch
               \/ ManagerGoWaiter \/ ManagerCollect \/ ManagerReturn)
    /\ WF_vars(WaiterClose)
    /\ WF_vars(Tick)
    /\ \A a \in Auctions :
          /\ WF_vars(RunnerAttr(a) \/ RunnerStart(a) \/ RunnerCtx(a)
                     \/ RunnerNotify(a) \/ RunnerClose(a) \/ RunnerEnd(a)
                     \/ RunnerDetermine(a) \/ RunnerEmit(a) \/ RunnerExit(a))
          /\ WF_vars(TimeoutFires(a))
          /\ WF_vars(CollectRecv(a) \/ CollectAdd(a) \/ CollectDone(a))
    /\ \A a \in Auctions, b \in Bidders :
          WF_vars(WorkerDelay(a, b) \/ WorkerWeight(a, b) \/ WorkerJitter(a, b)
                  \/ WorkerStamp(a, b) \/ WorkerSend(a, b))

FairSpec == Spec /\ Fairness

(* ---------------- the program while no placeBid goroutine runs -------- *)
\* The steps of every goroutine but the placeBid goroutines.
StalledNext ==
    \/ NewManagerBidder
    \/ ManagerRun
    \/ ManagerLaunch
    \/ ManagerGoWaiter
    \/ WaiterClose
    \/ ManagerCollect
    \/ ManagerReturn
    \/ \E a \in Auctions : RunnerAttr(a)
    \/ \E a \in Auctions : RunnerStart(a)
    \/ \E a \in Auctions : RunnerCtx(a)
    \/ \E a \in Auctions : RunnerNotify(a)
    \/ \E a \in Auctions : RunnerClose(a)
    \/ \E a \in Auctions : RunnerEnd(a)
    \/ \E a \in Auctions : RunnerDetermine(a)
    \/ \E a \in Auctions : RunnerEmit(a)
    \/ \E a \in Auctions : RunnerExit(a)
    \/ \E a \in Auctions : TimeoutFires(a)
    \/ \E a \in Auctions : CollectDone(a)
    \/ Tick

\* Fair scheduling of the manager, the runners, their timers and collection
\* goroutines and the clock.
StalledFairness ==
    /\ WF_vars(NewManagerBidder \/ ManagerRun \/ ManagerLaunch
               \/ ManagerGoWaiter \/ ManagerCollect \/ ManagerReturn)
    /\ WF_vars(WaiterClose)
    /\ WF_vars(Tick)
    /\ \A a \in Auctions :
          /\ WF_vars(RunnerAttr(a) \/ RunnerStart(a) \/ RunnerCtx(a)
                     \/ RunnerNotify(a) \/ RunnerClose(a) \/ RunnerEnd(a)
                     \/ RunnerDetermine(a) \/ RunnerEmit(a) \/ RunnerExit(a))
          /\ WF_vars(TimeoutFires(a))
          /\ WF_vars(CollectDone(a))

StalledSpec == OneAuctionInit /\ [][StalledNext]_vars /\ StalledFairness

(* ------------- Manager.Run with a context that can be cancelled -------- *)
\* The caller of Manager.Run cancels ctx: every context derived from it by
\* context.WithTimeout is done with it.
ParentCancel ==
    /\ ~panicked
    /\ ~parentDone
    /\ parentDone' = TRUE
    /\ ctxDone' = [a \in Auctions |-> ctxDone[a] \/ CtxMade(a)]
    /\ UNCHANGED <<delay, accepted, addVars, numAuctions, numBidders, now, seed, rng,
                   panicked, mgrVars, auction, rPc, notifyI, deadline, bidChan,
                   bidChanClosed, done, cPc, cBid, worker>>

CancelNext == Next \/ ParentCancel

CancelSpec == Init /\ [][CancelNext]_vars

(* ----------------- DetermineWinner on any bid sequence ----------------- *)
\* The bids one auction can hold when the runner calls DetermineWinner: up
\* to MaxBids bids of distinct bidders in any arrival order, with any amounts
\* and timestamps.
WinnerBidders == 1..MaxBids

\* The sequence of n bids with the bidders ids, amounts am and stamps ts.
WinnerInput(n, ids, am, ts) ==
    [i \in 1..n |-> [BidderID |-> ids[i], Amount |-> am[i], Timestamp |-> ts[i]]]

\* Auction 1 is about to call DetermineWinner (part_002:54) on such a
\* sequence; the collection goroutine and the bidders are done.
WinnerInit ==
    /\ numAuctions = 1
    /\ numBidders = MaxBids
    /\ now = MaxStamp
    /\ seed = 0
    /\ rng = 0
    /\ panicked = FALSE
    /\ mgrPc = "collect"
    /\ mgrI = 2
    /\ rate = [b \in WinnerBidders |-> 0]
    /\ wg = 1
    /\ waiterPc = "wait"
    /\ results = <<>>
    /\ resultsClosed = FALSE
    /\ auctionResults = <<>>
    /\ firstStart = 0
    /\ lastEnd = 0
    /\ \E n \in 0..MaxBids :
       \E ids \in [1..n -> WinnerBidders], am \in [1..n -> 1..MaxAmount],
          ts \in [1..n -> 1..MaxStamp] :
          /\ \A i, j \in 1..n : i # j => ids[i] # ids[j]
          /\ auction = [a \in Auctions |->
                          IF a = 1
                          THEN [NewAuction(1) EXCEPT
                                  !.Attributes = [i \in 1..NumAttrs |-> 0],
                                  !.StartTime = 1, !.EndTime = MaxStamp,
                                  !.Bids = WinnerInput(n, ids, am, ts)]
                          ELSE NewAuction(a)]
    /\ rPc = [a \in Auctions |-> IF a = 1 THEN "determine" ELSE "idle"]
    /\ notifyI = [a \in Auctions |-> IF a = 1 THEN MaxBids + 1 ELSE 1]
    /\ deadline = [a \in Auctions |-> IF a = 1 THEN 1 + Timeout ELSE 0]
    /\ ctxDone = [a \in Auctions |-> a = 1]
    /\ bidChan = [a \in Auctions |-> <<>>]
    /\ bidChanClosed = [a \in Auctions |-> a = 1]
    /\ done = [a \in Auctions |-> a = 1]
    /\ cPc = [a \in Auctions |-> IF a = 1 THEN "exited" ELSE "none"]
    /\ cBid = [a \in Auctions |-> NoBid]
    /\ worker = [a \in Auctions |-> [b \in WinnerBidders |-> NewWorker]]
    /\ mu = [a \in Auctions |-> 0]
    /\ caller = [c \in Callers |-> NewCaller]
    /\ accepted = [a \in Auctions |-> <<>>]
    /\ parentDone = FALSE
    /\ delay = NoDelay

WinnerNext == \E a \in Auctions : RunnerDetermine(a)

WinnerSpec == WinnerInit /\ [][WinnerNext]_vars

(* ------------------ collection of concurrent submissions -------------- *)
\* Auction 1 is Open with its timer due; any non-empty set of up to MaxBids
\* bidders have woken and stamped their bids and are about to send them.
CollectInit ==
    /\ numAuctions = 1
    /\ numBidders = MaxBids
    /\ now = 1 + Timeout
    /\ seed = 0
    /\ rng = 0
    /\ panicked = FALSE
    /\ mgrPc = "collect"
    /\ mgrI = 2
    /\ rate = [b \in WinnerBidders |-> 0]
    /\ wg = 1
    /\ waiterPc = "wait"
    /\ results = <<>>
    /\ resultsClosed = FALSE
    /\ auctionResults = <<>>
    /\ firstStart = 0
    /\ lastEnd = 0
    /\ auction = [a \in Auctions |->
                    IF a = 1
                    THEN [NewAuction(1) EXCEPT
                            !.Attributes = [i \in 1..NumAttrs |-> 0],
                            !.StartTime = 1]
                    ELSE NewAuction(a)]
    /\ rPc = [a \in Auctions |-> IF a = 1 THEN "wait" ELSE "idle"]
    /\ notifyI = [a \in Auctions |-> IF a = 1 THEN MaxBids + 1 ELSE 1]
    /\ deadline = [a \in Auctions |-> IF a = 1 THEN 1 + Timeout ELSE 0]
    /\ ctxDone = [a \in Auctions |-> FALSE]
    /\ bidChan = [a \in Auctions |-> <<>>]
    /\ bidChanClosed = [a \in Auctions |-> FALSE]
    /\ done = [a \in Auctions |-> FALSE]
    /\ cPc = [a \in Auctions |-> IF a = 1 THEN "select" ELSE "none"]
    /\ cBid = [a \in Auctions |-> NoBid]
    /\ \E S \in SUBSET WinnerBidders \ {{}},
          am \in [WinnerBidders -> 1..MaxAmount] :
          worker = [a \in Auctions |-> [b \in WinnerBidders |->
                      IF a = 1 /\ b \in S
                      THEN [NewWorker EXCEPT
                              !.pc = "send", !.i = NumAttrs + 1,
                              !.bid = [BidderID |-> b, Amount |-> am[b],
                                       Timestamp |-> now]]
                      ELSE NewWorker]]
    /\ mu = [a \in Auctions |-> 0]
    /\ caller = [c \in Callers |-> NewCaller]
    /\ accepted = [a \in Auctions |-> <<>>]
    /\ parentDone = FALSE
    /\ delay = NoDelay

CollectNext ==
    \/ \E b \in WinnerBidders : WorkerSend(1, b)
    \/ CollectRecv(1)
    \/ CollectAdd(1)
    \/ TimeoutFires(1)
    \/ CollectDone(1)
    \/ RunnerClose(1)

CollectSpec == CollectInit /\ [][CollectNext]_vars

(* -------------------- placeBid's processing delay ---------------------- *)
\* The values rand.Intn(n) returns.
IntnValues(n) == 0..(n - 1)

\* A placeBid goroutine is about to draw its processing delay.
DelayInit ==
    /\ numAuctions = 1
    /\ numBidders = 1
    /\ now = 1
    /\ seed = 0
    /\ rng = SeedState(seed)
    /\ panicked = FALSE
    /\ mgrPc = "newBidders"
    /\ mgrI = 1
    /\ rate = [b \in Bidders |-> 0]
    /\ wg = 0
    /\ waiterPc = "none"
    /\ results = <<>>
    /\ resultsClosed = FALSE
    /\ auctionResults = <<>>
    /\ firstStart = 0
    /\ lastEnd = 0
    /\ auction = [a \in Auctions |-> NewAuction(a)]
    /\ rPc = [a \in Auctions |-> "idle"]
    /\ notifyI = [a \in Auctions |-> 1]
    /\ deadline = [a \in Auctions |-> 0]
    /\ ctxDone = [a \in Auctions |-> FALSE]
    /\ bidChan = [a \in Auctions |-> <<>>]
    /\ bidChanClosed = [a \in Auctions |-> FALSE]
    /\ done = [a \in Auctions |-> FALSE]
    /\ cPc = [a \in Auctions |-> "none"]
    /\ cBid = [a \in Auctions |-> NoBid]
    /\ worker = [a \in Auctions |-> [b \in Bidders |-> NewWorker]]
    /\ mu = [a \in Auctions |-> 0]
    /\ caller = [c \in Callers |-> NewCaller]
    /\ accepted = [a \in Auctions |-> <<>>]
    /\ parentDone = FALSE
    /\ delay = [NoDelay EXCEPT !.pc = "draw"]

\* processingDelay := time.Duration(10+rand.Intn(490)) * time.Millisecond,
\* for any value of rand.Intn, and time.Sleep(processingDelay).
PlaceBidDelay ==
    /\ ~panicked
    /\ delay.pc = "draw"
    /\ \E k \in IntnValues(DelaySpanMs) :
          delay' = [pc |-> "sleep", k |-> k, ms |-> DelayMs(k)]
    /\ UNCHANGED <<parentDone, accepted, addVars, numAuctions, numBidders, now,
                   seed, rng, panicked, mgrVars, auction, runVars, worker>>

DelayNext == PlaceBidDelay

DelaySpec == DelayInit /\ [][DelayNext]_vars

(* ------------------- AddBid under concurrent callers ------------------- *)
\* a.mu.Lock(): blocks while another goroutine holds the mutex.
AddBidLockNoMutex(a, c) ==
    /\ ~panicked
    /\ caller[c].pc = "lock"
    /\ mu' = [mu EXCEPT ![a] = c]
    /\ caller' = [caller EXCEPT ![c].pc = "load"]
    /\ UNCHANGED <<delay, parentDone, accepted, numAuctions, numBidders, now, seed, rng, panicked,
                   mgrVars, auction, runVars, worker>>

AddBidLock(a, c) ==
    /\ ~panicked
    /\ caller[c].pc = "lock"
    /\ mu[a] = 0
    /\ mu' = [mu EXCEPT ![a] = c]
    /\ caller' = [caller EXCEPT ![c].pc = "load"]
    /\ UNCHANGED <<delay, parentDone, accepted, numAuctions, numBidders, now, seed, rng, panicked,
                   mgrVars, auction, runVars, worker>>

\* append(a.Bids, bid) reads the slice a.Bids ...
AddBidLoad(a, c) ==
    /\ ~panicked
    /\ caller[c].pc = "load"
    /\ caller' = [caller EXCEPT ![c].seen = auction[a].Bids, ![c].pc = "store"]
    /\ UNCHANGED <<delay, parentDone, accepted, numAuctions, numBidders, now, seed, rng, panicked,
                   mgrVars, auction, runVars, worker, mu>>

\* ... and a.Bids = stores the slice it read with the bid appended.
AddBidStore(a, c) ==
    /\ ~panicked
    /\ caller[c].pc = "store"
    /\ auction' = [auction EXCEPT ![a] =
                     AddBid([@ EXCEPT !.Bids = caller[c].seen], caller[c].bid)]
    /\ caller' = [caller EXCEPT ![c].pc = "unlock"]
    /\ UNCHANGED <<delay, parentDone, accepted, numAuctions, numBidders, now, seed, rng, panicked,
                   mgrVars, runVars, worker, mu>>

\* The deferred a.mu.Unlock(); AddBid returns.
AddBidUnlock(a, c) ==
    /\ ~panicked
    /\ caller[c].pc = "unlock"
    /\ mu' = [mu EXCEPT ![a] = 0]
    /\ caller' = [caller EXCEPT ![c].pc = "done"]
    /\ UNCHANGED <<delay, parentDone, accepted, numAuctions, numBidders, now, seed, rng, panicked,
                   mgrVars, auction, runVars, worker>>

\* Any non-empty set of goroutines is about to call AddBid on auction 1,
\* each with a bid of its own.
AddBidInit ==
    /\ numAuctions = 1
    /\ numBidders = 0
    /\ now = 1
    /\ seed = 0
    /\ rng = 0
    /\ panicked = FALSE
    /\ mgrPc = "newBidders"
    /\ mgrI = 1
    /\ rate = [b \in Bidders |-> 0]
    /\ wg = 0
    /\ waiterPc = "none"
    /\ results = <<>>
    /\ resultsClosed = FALSE
    /\ auctionResults = <<>>
    /\ firstStart = 0
    /\ lastEnd = 0
    /\ auction = [a \in Auctions |-> NewAuction(a)]
    /\ rPc = [a \in Auctions |-> "idle"]
    /\ notifyI = [a \in Auctions |-> 1]
    /\ deadline = [a \in Auctions |-> 0]
    /\ ctxDone = [a \in Auctions |-> FALSE]
    /\ bidChan = [a \in Auctions |-> <<>>]
    /\ bidChanClosed = [a \in Auctions |-> FALSE]
    /\ done = [a \in Auctions |-> FALSE]
    /\ cPc = [a \in Auctions |-> "none"]
    /\ cBid = [a \in Auctions |-> NoBid]
    /\ worker = [a \in Auctions |-> [b \in Bidders |-> NewWorker]]
    /\ mu = [a \in Auctions |-> 0]
    /\ accepted = [a \in Auctions |-> <<>>]
    /\ parentDone = FALSE
    /\ delay = NoDelay
    /\ \E S \in SUBSET Callers \ {{}}, am \in [Callers -> 1..MaxAmount] :
          caller = [c \in Callers |->
                      IF c \in S
                      THEN [pc |-> "lock", seen |-> <<>>,
                            bid |-> [BidderID |-> c, Amount |-> am[c],
                                     Timestamp |-> 1]]
                      ELSE NewCaller]

AddBidNext ==
    \/ \E c \in Callers : AddBidLock(1, c)
    \/ \E c \in Callers : AddBidLoad(1, c)
    \/ \E c \in Callers : AddBidStore(1, c)
    \/ \E c \in Callers : AddBidUnlock(1, c)

AddBidSpec == AddBidInit /\ [][AddBidNext]_vars

(* ------------------------------ claims --------------------------------- *)
\* The runner has sent its auction to the results channel.
Emitted(a) == rPc[a] \in {"exit", "exited"}

\* The runner has recorded the end instant.
EndSet(a) == rPc[a] \in {"determine", "emit", "exit", "exited"}

\* C1: a bid submission made after the runner closed the bid channel is a
\* safe no-op: the worker's select neither panics nor changes the channel or
\* any auction, and the worker goes on.
LateSendIsNoOp ==
    [][\A a \in Auctions, b \in Bidders :
          (bidChanClosed[a] /\ WorkerSend(a, b)) =>
              /\ ~panicked'
              /\ worker'[a][b].pc = "exited"
              /\ bidChan' = bidChan
              /\ auction' = auction]_vars

\* C2: once the timeout of a runner has fired, its collection loop takes no
\* further bid out of the bid channel to append it.
HardDeadline ==
    [][\A a \in Auctions :
          (ctxDone[a] /\ cPc[a] = "select") =>
              (cPc'[a] # "add" /\ auction'[a].Bids = auction[a].Bids)]_vars

\* C3: on a non-empty bid sequence DetermineWinner selects a bid whose amount
\* is at least that of every bid, with the earliest timestamp among the bids
\* of that amount.
WinnerIsHighestEarliest ==
    \A a \in Auctions :
        (rPc[a] = "emit" /\ auction[a].Bids # <<>>) =>
            /\ auction[a].Winner \in DOMAIN auction[a].Bids
            /\ \A i \in DOMAIN auction[a].Bids :
                  /\ WinnerBid(auction[a]).Amount >= auction[a].Bids[i].Amount
                  /\ auction[a].Bids[i].Amount = WinnerBid(auction[a]).Amount
                        => WinnerBid(auction[a]).Timestamp
                              <= auction[a].Bids[i].Timestamp

\* DetermineWinner has run on a sequence whose highest amount is bid twice,
\* the later-stamped bid arriving first.
WinnerTieResolved ==
    \E a \in Auctions :
        /\ rPc[a] = "emit"
        /\ \E i, j \in DOMAIN auction[a].Bids :
              /\ i < j
              /\ auction[a].Bids[i].Amount = auction[a].Bids[j].Amount
              /\ auction[a].Bids[i].Timestamp > auction[a].Bids[j].Timestamp
              /\ auction[a].Winner = j
              /\ \E k \in DOMAIN auction[a].Bids :
                    auction[a].Bids[k].Amount < auction[a].Bids[j].Amount

\* C4: from its emission on, an auction's TotalBids equals the length of its
\* bid sequence.
TotalBidsIsLen ==
    \A a \in Auctions :
        Emitted(a) => auction[a].TotalBids = Len(auction[a].Bids)

\* Manager.Run has returned an auction that holds a bid.
ReturnedWithBid ==
    /\ mgrPc = "returned"
    /\ \E a \in Auctions : Emitted(a) /\ auction[a].TotalBids >= 1

\* C5: an emitted auction has no winner exactly when it has no bids, and a
\* winner is one of its bids.
WinnerIffBids ==
    \A a \in Auctions :
        Emitted(a) =>
            /\ auction[a].Winner = 0 <=> auction[a].Bids = <<>>
            /\ auction[a].Winner # 0 =>
                  /\ auction[a].Winner \in DOMAIN auction[a].Bids
                  /\ \E i \in DOMAIN auction[a].Bids :
                        auction[a].Bids[i] = WinnerBid(auction[a])

\* An auction was emitted whose winner is the bid of one of the bidders.
EmittedWithWinner ==
    \E a \in Auctions :
        /\ Emitted(a)
        /\ auction[a].Winner # 0
        /\ WinnerBid(auction[a]).BidderID \in Bidders

\* C6: Manager.Run returns one auction per runner: every runner has emitted
\* and returned, and every identifier 1..N occurs exactly once.
OneResultPerRunner ==
    mgrPc = "returned" =>
        /\ Len(auctionResults) = numAuctions
        /\ results = <<>>
        /\ \A id \in 1..numAuctions :
              /\ rPc[id] = "exited"
              /\ Cardinality({i \in DOMAIN auctionResults :
                                 auctionResults[i] = id}) = 1

\* Manager.Run returned two results, the second runner's first.
ReturnedOutOfOrder ==
    /\ mgrPc = "returned"
    /\ Len(auctionResults) = 2
    /\ auctionResults[1] = 2

\* C7: the returned bounds are the earliest start and the latest end of the
\* returned auctions.
BoundsAreMinMax ==
    mgrPc = "returned" =>
        /\ \A i \in DOMAIN auctionResults :
              /\ firstStart <= auction[auctionResults[i]].StartTime
              /\ lastEnd >= auction[auctionResults[i]].EndTime
        /\ \E i \in DOMAIN auctionResults :
              firstStart = auction[auctionResults[i]].StartTime
        /\ \E i \in DOMAIN auctionResults :
              lastEnd = auction[auctionResults[i]].EndTime

\* Manager.Run returned two results, the first of which started after the
\* other one: the first start comes from the scan.
FirstStartFromLaterResult ==
    /\ mgrPc = "returned"
    /\ Len(auctionResults) = 2
    /\ firstStart < auction[auctionResults[1]].StartTime

\* C8: under fair scheduling every runner emits its result and Manager.Run
\* returns.
RunTerminates ==
    <>(mgrPc = "returned" /\ \A a \in 1..numAuctions : Emitted(a))

\* C9: the seed fixes the attribute vectors: every run yields the vectors of
\* the run in which the runners draw in launch order, right after the
\* bidders' rates.
SeedFixesAttributes ==
    \A a \in 1..numAuctions :
        Len(auction[a].Attributes) = NumAttrs =>
            auction[a].Attributes =
                [i \in 1..NumAttrs |->
                    Stream(seed, numBidders + (a - 1) * NumAttrs + i)]

\* C10: the end instant is at least Timeout after the start instant, and
\* between the deadline and the recording of the end instant the collection
\* loop takes no further bid.
WindowIsTimeout ==
    [][\A a \in Auctions :
          /\ RunnerEnd(a) =>
                auction'[a].EndTime >= auction[a].StartTime + Timeout
          /\ (ctxDone[a] /\ ~EndSet(a)) => ~CollectRecv(a)]_vars

\* C11: AddBid is safe under concurrent callers: at most one caller is inside
\* the append at a time, the bid sequence holds exactly the bids of the
\* callers that have appended, each once, and so has grown by k when k
\* concurrent calls have completed.
AddBidSerialized ==
    /\ Cardinality({c \in Callers :
                       caller[c].pc \in {"load", "store", "unlock"}}) <= 1
    /\ Len(auction[1].Bids) =
          Cardinality({c \in Callers : caller[c].pc \in {"unlock", "done"}})
    /\ \A c \in Callers :
          caller[c].pc \in {"unlock", "done"} =>
              Cardinality({i \in DOMAIN auction[1].Bids :
                              auction[1].Bids[i] = caller[c].bid}) = 1

\* Three concurrent calls have completed, the last caller's append first.
AddBidAllDone ==
    /\ \A c \in Callers : caller[c].pc = "done"
    /\ MaxCallers >= 3
    /\ Len(auction[1].Bids) = MaxCallers
    /\ auction[1].Bids[1].BidderID = MaxCallers

\* The orderings of a sequence of n bids, as permutations of its indices.
Orderings(n) ==
    {p \in [1..n -> 1..n] : \A i, j \in 1..n : i # j => p[i] # p[j]}

\* The bid DetermineWinner selects when auction a's bids arrive in order p.
WinnerInOrder(a, p) ==
    WinnerBid(DetermineWinner(
        [auction[a] EXCEPT !.Bids = [i \in DOMAIN p |-> auction[a].Bids[p[i]]]]))

\* C12: DetermineWinner selects the same bid for every ordering of the bid
\* set as the auction's bid sequence.
WinnerSameForAllOrders ==
    \A a \in Auctions :
        rPc[a] = "emit" =>
            \A p \in Orderings(Len(auction[a].Bids)) :
                WinnerInOrder(a, p) = WinnerBid(auction[a])

\* C12 as amended: for every ordering of the bid set DetermineWinner selects
\* a bid of the same amount and timestamp, and the same bid unless another
\* bid has both the amount and the timestamp of the selected one.
WinnerSameUpToFullTie ==
    \A a \in Auctions :
        rPc[a] = "emit" =>
            \A p \in Orderings(Len(auction[a].Bids)) :
                /\ WinnerInOrder(a, p).Amount = WinnerBid(auction[a]).Amount
                /\ WinnerInOrder(a, p).Timestamp = WinnerBid(auction[a]).Timestamp
                /\ (\A i \in DOMAIN auction[a].Bids :
                        (/\ auction[a].Bids[i].Amount = WinnerBid(auction[a]).Amount
                         /\ auction[a].Bids[i].Timestamp
                               = WinnerBid(auction[a]).Timestamp)
                            => i = auction[a].Winner)
                      => WinnerInOrder(a, p) = WinnerBid(auction[a])

\* DetermineWinner has selected the bid that arrived last out of three, two
\* of them with the highest amount at different timestamps.
WinnerArrivedLast ==
    \E a \in Auctions :
        /\ rPc[a] = "emit"
        /\ Len(auction[a].Bids) = 3
        /\ auction[a].Winner = 3
        /\ \E i \in 1..2 :
              /\ auction[a].Bids[i].Amount = auction[a].Bids[3].Amount
              /\ auction[a].Bids[i].Timestamp > auction[a].Bids[3].Timestamp

\* C13: an auction's bid sequence holds at most one bid per bidder, and every
\* bid in it is the bid of one of the bidders.
OneBidPerBidder ==
    \A a \in Auctions :
        \A i, j \in DOMAIN auction[a].Bids :
            /\ auction[a].Bids[i].BidderID \in 1..numBidders
            /\ i # j => auction[a].Bids[i].BidderID # auction[a].Bids[j].BidderID

\* A bidder's worker has submitted and gone, and the collection loop has ended
\* with that bidder's bid appended.
BidderBidCollected ==
    \E a \in Auctions, b \in Bidders :
        /\ worker[a][b].pc = "exited"
        /\ cPc[a] = "exited"
        /\ \E i \in DOMAIN auction[a].Bids : auction[a].Bids[i].BidderID = b

\* C14: with one auction and one bidder whose bid enters the bid channel
\* before the deadline, the emitted auction holds exactly that bid and it is
\* the winner: the bid is not left uncollected.
EarlyBidWins ==
    \A a \in Auctions :
        (/\ Emitted(a)
         /\ numAuctions = 1 /\ numBidders = 1
         /\ Len(accepted[a]) = 1 /\ accepted[a][1].early)
            => /\ auction[a].Bids = <<accepted[a][1].bid>>
               /\ auction[a].TotalBids = 1
               /\ WinnerBid(auction[a]) = accepted[a][1].bid
               /\ bidChan[a] = <<>>

\* DetermineWinner has run in runner a.
Determined(a) == rPc[a] \in {"emit", "exit", "exited"}

\* C15: a runner invokes DetermineWinner once: the step that completes it
\* starts from the call of part_002:54 with the collection loop terminated,
\* it is never taken again, and from the call on no AddBid is in progress or
\* starts and the bid sequence does not change.
DetermineOnceAfterCollection ==
    [][\A a \in Auctions :
          /\ (Determined(a)' /\ ~Determined(a)) =>
                /\ rPc[a] = "determine"
                /\ rPc'[a] = "emit"
                /\ auction'[a] = DetermineWinner(auction[a])
          /\ Determined(a) => (Determined(a)' /\ auction'[a] = auction[a])
          /\ (rPc[a] = "determine" \/ Determined(a)) =>
                /\ cPc[a] = "exited" /\ cPc'[a] = "exited"
                /\ auction'[a].Bids = auction[a].Bids]_vars

\* DetermineWinner has run on an auction whose collection loop appended a
\* bid and has terminated.
DeterminedAfterCollection ==
    \E a \in Auctions :
        /\ rPc[a] = "emit"
        /\ cPc[a] = "exited"
        /\ auction[a].TotalBids >= 1
        /\ auction[a].Winner # 0

\* The lifecycle state of runner a, by its position in Run: 0 not started,
\* 1 Created (attributes, start instant, channel, notification), 2 Open (the
\* collection window, part_002:47-48), 3 Closing (part_002:49-57), 4 Closed
\* (the auction is emitted).
RunnerState(a) ==
    CASE rPc[a] = "idle" -> 0
      [] rPc[a] \in {"attrs", "start", "ctx", "notify"} -> 1
      [] rPc[a] = "wait" -> 2
      [] rPc[a] \in {"end", "determine", "emit"} -> 3
      [] OTHER -> 4

\* C16: a runner moves through Created, Open, Closing, Closed one state at a
\* time and never back; it leaves Open by closing the bid channel, then
\* records the end instant, then resolves the winner, then emits the auction.
LifecycleInOrder ==
    [][\A a \in Auctions :
          /\ RunnerState(a)' \in {RunnerState(a), RunnerState(a) + 1}
          /\ (RunnerState(a) = 2 /\ RunnerState(a)' = 3) =>
                /\ bidChanClosed'[a] /\ ~bidChanClosed[a]
                /\ rPc'[a] = "end"
          /\ (rPc[a] = "end" /\ rPc'[a] # "end") =>
                /\ rPc'[a] = "determine"
                /\ bidChanClosed[a]
                /\ auction'[a] = [auction[a] EXCEPT !.EndTime = now]
          /\ (rPc[a] = "determine" /\ rPc'[a] # "determine") =>
                /\ rPc'[a] = "emit"
                /\ auction[a].EndTime >= auction[a].StartTime
                /\ auction'[a] = DetermineWinner(auction[a])
          /\ (RunnerState(a) = 3 /\ RunnerState(a)' = 4) =>
                /\ rPc[a] = "emit"
                /\ results' = Append(results, a)
                /\ auction'[a] = auction[a]
          /\ bidChanClosed[a] => RunnerState(a) >= 3]_vars

\* A runner is Closed after a window in which a bid was collected, and its
\* auction is among the manager's results.
ClosedAfterBid ==
    \E a \in Auctions :
        /\ RunnerState(a) = 4
        /\ auction[a].Bids # <<>>
        /\ auction[a].EndTime >= auction[a].StartTime + Timeout
        /\ \E i \in DOMAIN auctionResults : auctionResults[i] = a

\* C17: the results channel is closed only after every runner has emitted,
\* so a runner about to emit finds it open, and it finds room in the buffer
\* of N, so its send does not block.
ResultsClosedAfterAllEmit ==
    /\ resultsClosed => \A a \in 1..numAuctions : Emitted(a)
    /\ \A a \in Auctions :
          rPc[a] = "emit" => (~resultsClosed /\ Len(results) < numAuctions)
    /\ Len(results) <= numAuctions

\* The results channel was closed with the results of both runners still in
\* its buffer, the second runner's first.
ResultsClosedFull ==
    /\ resultsClosed
    /\ numAuctions = 2
    /\ results = <<2, 1>>

\* C18: a runner leaves the Open state only once its own timeout has
\* elapsed, whatever else has happened: bids, the state of the bid channel,
\* other runners, cancellation of the context given to Manager.Run.
OnlyTimeoutClosesWindow ==
    [][\A a \in Auctions :
          (RunnerState(a) = 2 /\ RunnerState(a)' = 3) =>
              now >= deadline[a]]_vars

\* C18 as amended: a runner leaves the Open state only once its own timeout
\* has elapsed or the context given to Manager.Run was cancelled.
OnlyTimeoutOrParentClosesWindow ==
    [][\A a \in Auctions :
          /\ (RunnerState(a) = 2 /\ RunnerState(a)' = 3) =>
                (now >= deadline[a] \/ parentDone)
          /\ (ctxDone'[a] /\ ~ctxDone[a] /\ RunnerState(a) <= 2) =>
                (now >= deadline[a] \/ parentDone')]_vars

\* A runner has left the Open state at its own deadline while the other
\* runner is still Open before its deadline, the context given to
\* Manager.Run not being cancelled.
ClosedByOwnTimeout ==
    \E a, b \in Auctions :
        /\ ~parentDone
        /\ RunnerState(a) = 3 /\ now >= deadline[a]
        /\ RunnerState(b) = 2 /\ now < deadline[b] /\ ~ctxDone[b]

\* The bids auction a's bid channel has accepted, in the order of acceptance.
AcceptedBids(a) == [i \in DOMAIN accepted[a] |-> accepted[a][i].bid]

\* C19: an auction's bid sequence is a prefix of the sequence of bids its bid
\* channel has accepted, in the order of acceptance.
BidsInArrivalOrder ==
    \A a \in Auctions :
        /\ Len(auction[a].Bids) <= Len(accepted[a])
        /\ \A i \in DOMAIN auction[a].Bids :
              auction[a].Bids[i] = AcceptedBids(a)[i]

\* Two bids were appended, a later bidder's first, while a third accepted
\* bid is still on its way to the bid sequence.
TwoCollectedOneInFlight ==
    \E a \in Auctions :
        /\ Len(auction[a].Bids) = 2
        /\ auction[a].Bids[1].BidderID > auction[a].Bids[2].BidderID
        /\ Len(accepted[a]) = 3

\* C20: while no placeBid goroutine takes a step, every runner still gets
\* from the notification to the collection, the deadline and Closed.
ClosesWithoutWorkers ==
    <>(\A a \in 1..numAuctions : RunnerState(a) = 4)

\* A runner is Closed while the placeBid goroutine it started has not taken
\* a step.
ClosedWithStalledWorker ==
    \E a \in Auctions, b \in Bidders :
        /\ RunnerState(a) = 4
        /\ worker[a][b].pc = "delay"

\* C21: once a runner has emitted its auction, no step of any runner,
\* collection loop or bidder worker, a late bid submission included, changes
\* the auction: its bids, winner, total-bid count, attributes, start and end
\* instants stay as emitted.
EmittedIsImmutable ==
    [][\A a \in Auctions : Emitted(a) => auction'[a] = auction[a]]_vars

\* A bidder's worker has made its submission after the runner emitted the
\* auction.
LateSendAfterEmit ==
    \E a \in Auctions, b \in Bidders :
        /\ Emitted(a)
        /\ worker[a][b].pc = "send"
        /\ panicked

\* C22: the processing delay is a whole number of milliseconds in [10, 500],
\* and every value from 10 to 500 is the delay for some value of rand.Intn.
DelayRangeIs10To500 ==
    delay.pc = "sleep" =>
        /\ delay.ms \in 10..500
        /\ {DelayMs(k) : k \in IntnValues(DelaySpanMs)} = 10..500

\* C23: every bid of an emitted auction is stamped within the auction's
\* window: StartTime <= Timestamp <= EndTime.
BidsStampedInWindow ==
    \A a \in Auctions :
        Emitted(a) =>
            \A i \in 1..Len(auction[a].Bids) :
                /\ auction[a].StartTime <= auction[a].Bids[i].Timestamp
                /\ auction[a].Bids[i].Timestamp <= auction[a].EndTime

\* An emitted auction holds a bid stamped after the start and after the
\* timeout had expired.
EmittedWithBidPastDeadline ==
    \E a \in Auctions :
        /\ Emitted(a)
        /\ \E i \in 1..Len(auction[a].Bids) :
              /\ auction[a].Bids[i].Timestamp > auction[a].StartTime
              /\ auction[a].Bids[i].Timestamp > deadline[a]

\* C24: an auction's bid channel never holds more bids than its capacity,
\* which the number of bidders does not exceed; a bidder's submission to the
\* open channel is always accepted, none is dropped for lack of space.
NoBidDroppedForSpace ==
    /\ NumBidders <= BidChanCap
    /\ \A a \in Auctions :
          /\ Len(bidChan[a]) <= BidChanCap
          /\ Len(bidChan[a]) <= numBidders
          /\ Len(accepted[a]) =
                Cardinality({b \in DOMAIN worker[a] :
                               worker[a][b].pc = "exited"})

\* Every bidder has made its submission while the channel was open, and the
\* channel holds several bids at once.
AllSentSeveralQueued ==
    \E a \in Auctions :
        /\ \A b \in DOMAIN worker[a] : worker[a][b].pc = "exited"
        /\ ~bidChanClosed[a]
        /\ Len(bidChan[a]) >= 2

====
